---- MODULE Spec2Model ----
(***************************************************************************)
(* Model of src/src/bot.rs: the step registry (StepManager), the per-call *)
(* execution context (Context) and the driver (Bot::handle_step).          *)
(*                                                                         *)
(* handle_step is an async fn with one suspension point, the network send  *)
(* (bot.rs:39).  It is modelled by two actions per execution: the part up  *)
(* to the await (HandleStepBegin) and the part from the transport's answer *)
(* to the return (SendErr, SendOk).  An execution is one task calling     *)
(* handle_step.  On one Bot `&mut self` serialises the calls; on Bots      *)
(* built from clones of a populated StepManager (derive(Clone),            *)
(* bot.rs:212, the steps shared through Arc) they overlap at the await.    *)
(* Both are behaviours of the model.  The registry is not mutated while    *)
(* an execution is suspended, as handle_step borrows it across the await.  *)
(***************************************************************************)
EXTENDS Integers, Sequences, FiniteSets, TLC

(***************************************************************************)
(* Bounds of the model.                                                    *)
(***************************************************************************)
\* Longest vector handed to insert_many.
MaxMany == 2
\* Most calls of mutators made by callers on the Contexts they hold.
MaxCalls == 1

(***************************************************************************)
(* Option<T>                                                               *)
(***************************************************************************)
None == [some |-> FALSE]
Some(v) == [some |-> TRUE, val |-> v]
IsSome(o) == o.some
IsNone(o) == ~o.some

(***************************************************************************)
(* Stepable implementations (bot.rs:202-210).  A step is behaviour, not    *)
(* data: each row fixes what name() and on_request() return and what the   *)
(* three callbacks do: the Context mutators they call, in order, and       *)
(* whether the body ends in todo!(), which panics.  Rows 1 and 2 are two   *)
(* instances with the same name(); row 2 gives no accepted codes.  Rows 2  *)
(* and 3 also store a body of their own with Context::set_response.  Row 4 *)
(* is the step RobotsTxt of the tests (bot.rs:267-301): accepted codes     *)
(* [200], on_success names itself next (after a sleep that blocks the      *)
(* thread and changes no state), on_error and on_timeout are todo!().      *)
(***************************************************************************)
OpSet(n) == [op |-> "set_next_step", step |-> n]
OpClear == [op |-> "clear_next_step"]
OpResponse(b) == [op |-> "set_response", res |-> b]
OpBuilder(b) == [op |-> "set_request_builder", builder |-> b]
OpElapsed(ms) == [op |-> "set_time_elapsed", ms |-> ms]
\* todo!() (bot.rs:295, 299): panics with "not yet implemented".
OpTodo == [op |-> "todo"]

\* Bodies, as sequences of bytes: the text {} , the text ok, the single
\* byte FF, which no UTF-8 text contains, and the text o in UTF-16LE behind
\* its byte order mark.
ResBody == <<123, 125>>
TextBody == <<111, 107>>
BadBody == <<255>>
BomBody == <<255, 254, 111, 0>>

StepTable ==
  << [name |-> "Ping",  codes |-> Some(<<200>>),
      succ |-> <<OpSet("Fetch"), OpSet("Ping")>>, err |-> <<>>,
      tmo |-> <<OpSet("Ping")>>],
     [name |-> "Ping",  codes |-> None,
      succ |-> <<>>,
      err |-> <<OpResponse(BadBody), OpElapsed(0), OpSet("Fetch")>>,
      tmo |-> <<OpSet("Ping"), OpClear>>],
     [name |-> "Fetch", codes |-> Some(<<201, 404>>),
      succ |-> <<OpResponse(ResBody), OpBuilder("again"), OpSet("Ping"), OpClear>>,
      err |-> <<OpSet("Fetch"), OpSet("Ping")>>,
      tmo |-> <<OpResponse(TextBody)>>],
     [name |-> "RobotsTxt", codes |-> Some(<<200>>),
      succ |-> <<OpSet("RobotsTxt")>>, err |-> <<OpTodo>>, tmo |-> <<OpTodo>>] >>

StepIds == DOMAIN StepTable
\* Stepable::name
name(s) == StepTable[s].name
\* Names a caller may ask for; "Missing" is never the name() of a step.
Names == {StepTable[s].name : s \in StepIds} \cup {"Missing"}

\* Status codes the transport may answer with.
Statuses == {199, 200, 201, 299, 300, 404}
\* Transport failures: reqwest::Error with its is_timeout() and its text.
TransportErrors ==
  { [is_timeout |-> TRUE,  text |-> "operation timed out"],
    [is_timeout |-> FALSE, text |-> "connection refused"] }
\* The failures the transport reports and the responses it delivers (one
\* for each status of Statuses), each with the value that
\* stop_watch.elapsed().as_millis() yields for it (bot.rs:42, 54): 7, or 0,
\* which is also the value new_context starts time_elapsed with.
Failures == {[err |-> x, ms |-> 7] : x \in TransportErrors}
Responses ==
  {[status |-> s, ms |-> IF s \in {200, 299, 404} THEN 7 ELSE 0] : s \in Statuses}
\* The concurrent tasks that call handle_step.
Execs == {1, 2}


(***************************************************************************)
(* StepError (crate::StepError as used in bot.rs:26, 46-50, 67-70)         *)
(***************************************************************************)
StepNotFound(n) == [kind |-> "StepNotFound", step |-> n]
ReqwestError(text) == [kind |-> "ReqwestError", text |-> text]
StatusCodeNotFound(code, codes) ==
  [kind |-> "StatusCodeNotFound", code |-> code, codes |-> codes]
\* reqwest::Error::to_string (bot.rs:46, 49, 50): the text of the failure.
ErrToString(err) == err.text
\* `status_code as i32` (bot.rs:68): the 16-bit value, zero-extended; every
\* u16 is representable in an i32, so the value is kept.
U16AsI32(v) == v % 65536
\* is_success with the upper end of the range included.
IsSuccess_inclusive(status) == 200 <= status /\ status <= 300
\* StatusCode::is_success (bot.rs:63): the 2xx range.
IsSuccess(status) == 200 <= status /\ status < 300
\* Vec::contains (bot.rs:61)
Contains(codes, v) == \E i \in 1..Len(codes) : codes[i] = v

(***************************************************************************)
(* Stepable::on_request (bot.rs:205): the Request descriptor of a step;    *)
(* only its accepted-status-code list is read by the driver's own logic.   *)
(***************************************************************************)
on_request(s) == [status_codes |-> StepTable[s].codes]

(***************************************************************************)
(* Context (bot.rs:109-200)                                                *)
(***************************************************************************)
\* new_context that hands out a pooled Context instead of a fresh one: the
\* hint an earlier execution left is still in it.
new_context_pooled(req, req_builder) ==
  [ request         |-> req,
    current_step    |-> None,
    request_builder |-> Some(req_builder),
    response        |-> None,
    next_step       |-> Some("Fetch"),
    status_codes    |-> req.status_codes,
    time_elapsed    |-> 0 ]

\* Bot::new_context (bot.rs:83-104), past the unwrap() of bot.rs:92;
\* req_builder is the RequestBuilder that build_reqwest produced.
new_context(req, req_builder) ==
  [ request         |-> req,
    current_step    |-> None,
    request_builder |-> Some(req_builder),
    response        |-> None,
    next_step       |-> None,
    status_codes    |-> req.status_codes,
    time_elapsed    |-> 0 ]

set_next_step(c, n) == [c EXCEPT !.next_step = Some(n)]
clear_next_step(c) == [c EXCEPT !.next_step = None]
get_next_step(c) == c.next_step
get_time_elapsed(c) == c.time_elapsed
set_time_elapsed(c, ms) == [c EXCEPT !.time_elapsed = ms]
\* Context::set_response (bot.rs:166-168)
set_response(c, res) == [c EXCEPT !.response = Some(res)]
\* Context::set_request_builder (bot.rs:170-172)
set_request_builder(c, req_builder) ==
  [c EXCEPT !.request_builder = Some(req_builder)]

\* One call of a `&mut self` method of Context (bot.rs:146-172).
ApplyOp(c, o) ==
  CASE o.op = "set_next_step" -> set_next_step(c, o.step)
    [] o.op = "clear_next_step" -> clear_next_step(c)
    [] o.op = "set_time_elapsed" -> set_time_elapsed(c, o.ms)
    [] o.op = "set_response" -> set_response(c, o.res)
    [] OTHER -> set_request_builder(c, o.builder)

\* The outcome of a call that unwinds with a panic.
Panic == [some |-> FALSE, panic |-> TRUE]

\* A callback body: its mutator calls applied to the Context, in order; the
\* Context it leaves, or Panic when it reaches todo!().
RECURSIVE RunOps(_, _)
RunOps(c, ops) ==
  IF ops = <<>> THEN c
  ELSE IF Head(ops).op = "todo" THEN Panic
  ELSE RunOps(ApplyOp(c, Head(ops)), Tail(ops))

\* Stepable::on_success / on_error / on_timeout (bot.rs:206-208)
on_success(s, c) == RunOps(c, StepTable[s].succ)
on_error(s, c, e) == RunOps(c, StepTable[s].err)
on_timeout(s, c) == RunOps(c, StepTable[s].tmo)

(***************************************************************************)
(* StepManager (bot.rs:212-254).  handlers is the HashMap: a function      *)
(* whose domain is the set of keys.                                        *)
(***************************************************************************)
\* String::parse::<String>() (bot.rs:225, 229, 234): FromStr for String
\* copies the text and never fails.
ParseString(n) == n

\* HashMap::insert: the value under an existing key is replaced.
MapInsert(h, k, v) ==
  [n \in DOMAIN h \cup {k} |-> IF n = k THEN v ELSE h[n]]
\* HashMap::get
MapGet(h, k) == IF k \in DOMAIN h THEN Some(h[k]) ELSE None

\* StepManager::insert (bot.rs:223-226)
insert(h, s) == MapInsert(h, ParseString(name(s)), s)
\* insert_arc that keeps the entry already stored under the name.
insert_arc_keep(h, s) ==
  IF ParseString(name(s)) \in DOMAIN h THEN h
  ELSE MapInsert(h, ParseString(name(s)), s)
\* StepManager::insert_arc (bot.rs:228-230)
insert_arc(h, s) == MapInsert(h, ParseString(name(s)), s)
\* insert_many that leaves its loop after the first element.
insert_many_first(h, steps) ==
  IF steps = <<>> THEN h
  ELSE MapInsert(h, ParseString(name(Head(steps))), Head(steps))
\* StepManager::insert_many (bot.rs:232-236)
RECURSIVE insert_many(_, _)
insert_many(h, steps) ==
  IF steps = <<>> THEN h
  ELSE insert_many(MapInsert(h, ParseString(name(Head(steps))), Head(steps)),
                   Tail(steps))

\* StepManager::get (bot.rs:238-241): unwrap() of the HashMap lookup panics
\* on a missing key; otherwise the entry is returned as Some.
get(h, n) ==
  LET found == MapGet(h, n)
  IN  IF IsNone(found) THEN Panic ELSE Some(found.val)
\* StepManager::len (bot.rs:243-245)
len(h) == Cardinality(DOMAIN h)
\* StepManager::contains_name (bot.rs:247-249)
contains_name(h, n) == n \in DOMAIN h
\* contains_step that asks for the very instance, not for its name.
contains_step_same(h, s) == name(s) \in DOMAIN h /\ h[name(s)] = s
\* StepManager::contains_step (bot.rs:251-253)
contains_step(h, s) == name(s) \in DOMAIN h

\* The calls of the reading methods of StepManager: get takes `&self`, len,
\* contains_name and contains_step take `&mut self` (bot.rs:238-253).
Queries ==
  {[op |-> "get", arg |-> n] : n \in Names}
    \cup {[op |-> "len"]}
    \cup {[op |-> "contains_name", arg |-> n] : n \in Names}
    \cup {[op |-> "contains_step", arg |-> s] : s \in StepIds}
\* lookup in which get takes the entry out of the map (HashMap::remove).
lookup_remove(h, q) ==
  [ self |-> IF q.op = "get" THEN [n \in DOMAIN h \ {q.arg} |-> h[n]] ELSE h,
    out  |-> CASE q.op = "get" -> get(h, q.arg)
               [] q.op = "len" -> len(h)
               [] q.op = "contains_name" -> contains_name(h, q.arg)
               [] OTHER -> contains_step(h, q.arg) ]
\* One call of a reading method: the map after the call and the value
\* returned (Panic when get unwinds).  None of the methods changes the map.
lookup(h, q) ==
  [ self |-> h,
    out  |-> CASE q.op = "get" -> get(h, q.arg)
               [] q.op = "len" -> len(h)
               [] q.op = "contains_name" -> contains_name(h, q.arg)
               [] OTHER -> contains_step(h, q.arg) ]

(***************************************************************************)
(* Bot::handle_step (bot.rs:22-81).  The state of one execution is a       *)
(* record: pc is the position of the task (idle, sending = suspended at    *)
(* the await of bot.rs:39, returned, panicked), step the resolved step,    *)
(* ctx the Context, result what the caller received.  log is the trace of  *)
(* the calls the driver made during the current handle_step, each callback *)
(* entry with the Context and the error it was handed.                     *)
(***************************************************************************)
Ok(c) == [kind |-> "Ok", ctx |-> c]
Err(e) == [kind |-> "Err", err |-> e]
Pending == [kind |-> "Pending"]

(***************************************************************************)
(* Context body accessors (bot.rs:174-199)                                 *)
(***************************************************************************)
\* Context::body_bytes (bot.rs:174-176)
body_bytes(c) == c.response

\* Encoding::decode (bot.rs:184) on bodies made of ASCII bytes and of bytes
\* F5..FF, behind a byte order mark or not.  A text is the sequence of its
\* code points.
\* The UTF-8 decoder: an ASCII byte is its own character; a byte F5..FF is
\* malformed wherever it stands and becomes U+FFFD.
decode_utf8(bytes) ==
  [i \in DOMAIN bytes |-> IF bytes[i] < 128 THEN bytes[i] ELSE 65533]
\* The UTF-16 decoder: each pair of bytes is one code unit, in the byte
\* order given (no pair of these bytes is a surrogate); a byte left over at
\* the end becomes U+FFFD.
decode_utf16(bytes, big_endian) ==
  [k \in 1..(Len(bytes) \div 2) |->
     IF big_endian
     THEN 256 * bytes[2 * k - 1] + bytes[2 * k]
     ELSE bytes[2 * k - 1] + 256 * bytes[2 * k]]
    \o (IF Len(bytes) % 2 = 1 THEN <<65533>> ELSE <<>>)
\* The bytes behind the first n.
Behind(bytes, n) == SubSeq(bytes, n + 1, Len(bytes))
\* Whether bytes begins with mark.
StartsWith(bytes, mark) ==
  Len(bytes) >= Len(mark) /\ SubSeq(bytes, 1, Len(mark)) = mark
\* decode sniffs a byte order mark first: EF BB BF keeps UTF-8, FF FE
\* switches to UTF-16LE and FE FF to UTF-16BE; the mark is not part of the
\* text.  Without one the encoding asked for, UTF-8, decodes all the bytes.
decode(bytes) ==
  IF StartsWith(bytes, <<239, 187, 191>>) THEN decode_utf8(Behind(bytes, 3))
  ELSE IF StartsWith(bytes, <<255, 254>>) THEN decode_utf16(Behind(bytes, 2), FALSE)
  ELSE IF StartsWith(bytes, <<254, 255>>) THEN decode_utf16(Behind(bytes, 2), TRUE)
  ELSE decode_utf8(bytes)
\* Context::body_text (bot.rs:178-187); the empty text is <<>>.
body_text(c) ==
  IF IsNone(c.response) THEN <<>> ELSE decode(c.response.val)

\* serde_json::from_slice (bot.rs:197) into serde_json::Value, on the
\* bodies above: {} is the empty object, the others are no JSON document.
FromSlice(bytes) ==
  IF bytes = <<123, 125>> THEN Ok([object |-> {}])
  ELSE Err([kind |-> "serde_json", at |-> 1])
\* body_json that decodes a missing response as the JSON value null.
body_json_null(c) ==
  IF IsNone(c.response)
  THEN Ok([null |-> TRUE])
  ELSE FromSlice(c.response.val)
\* Context::body_json (bot.rs:189-199)
body_json(c) ==
  IF IsNone(c.response)
  THEN Err([kind |-> "io", text |-> "No response"])
  ELSE FromSlice(c.response.val)

\* The reading methods of Context, all of them `&self` (bot.rs:154-199).
Accessors ==
  {"body_bytes", "body_text", "body_json", "get_next_step", "get_time_elapsed"}
\* One call of a reading method: the Context after the call and the value
\* returned.  None of the methods assigns a field.
access(c, acc) ==
  [ self |-> c,
    out  |-> CASE acc = "body_bytes" -> body_bytes(c)
               [] acc = "body_text" -> body_text(c)
               [] acc = "body_json" -> body_json(c)
               [] acc = "get_next_step" -> get_next_step(c)
               [] OTHER -> get_time_elapsed(c) ]

EvRequest(s) == [ev |-> "on_request", step |-> s]
EvSend == [ev |-> "send"]
EvElapsed(ms) == [ev |-> "set_time_elapsed", ms |-> ms]
EvTimeout(s, c) == [ev |-> "on_timeout", step |-> s, ctx |-> c]
EvError(s, c, e) == [ev |-> "on_error", step |-> s, ctx |-> c, err |-> e]
EvSuccess(s, c) == [ev |-> "on_success", step |-> s, ctx |-> c]

Idle ==
  [pc |-> "idle", step_name |-> "", step |-> 0, ctx |-> None,
   log |-> <<>>, result |-> Pending]

\* handle_step_begin that writes the step name to next_step instead of
\* current_step at bot.rs:35.
handle_step_begin_next(h, step_name, built) ==
  LET looked == get(h, step_name)
  IN  IF looked = Panic
      THEN [Idle EXCEPT !.pc = "panicked", !.step_name = step_name]
      ELSE IF built.kind # "Ok"
      THEN [Idle EXCEPT !.pc = "panicked", !.step_name = step_name,
                        !.step = looked.val,
                        !.log = <<EvRequest(looked.val)>>]
      ELSE
        LET step == looked.val
            ctx0 == [new_context(on_request(step), built.val) EXCEPT
                       !.next_step = Some(step_name)]
        IN  [pc |-> "sending", step_name |-> step_name, step |-> step,
             ctx |-> Some([ctx0 EXCEPT !.request_builder = None]),
             log |-> <<EvRequest(step), EvSend>>, result |-> Pending]

\* handle_step_begin that sends a clone of the request handle instead of
\* taking it out of the Context at bot.rs:37.
handle_step_begin_cloned(h, step_name, built) ==
  LET looked == get(h, step_name)
  IN  IF looked = Panic
      THEN [Idle EXCEPT !.pc = "panicked", !.step_name = step_name]
      ELSE IF built.kind # "Ok"
      THEN [Idle EXCEPT !.pc = "panicked", !.step_name = step_name,
                        !.step = looked.val,
                        !.log = <<EvRequest(looked.val)>>]
      ELSE
        LET step == looked.val
            ctx0 == [new_context(on_request(step), built.val) EXCEPT
                       !.current_step = Some(step_name)]
        IN  [pc |-> "sending", step_name |-> step_name, step |-> step,
             ctx |-> Some(ctx0),
             log |-> <<EvRequest(step), EvSend>>, result |-> Pending]

\* handle_step_begin without the assignment of bot.rs:35: current_step
\* stays as new_context made it.
handle_step_begin_unnamed(h, step_name, built) ==
  LET looked == get(h, step_name)
  IN  IF looked = Panic
      THEN [Idle EXCEPT !.pc = "panicked", !.step_name = step_name]
      ELSE IF built.kind # "Ok"
      THEN [Idle EXCEPT !.pc = "panicked", !.step_name = step_name,
                        !.step = looked.val,
                        !.log = <<EvRequest(looked.val)>>]
      ELSE
        LET step == looked.val
            ctx0 == new_context(on_request(step), built.val)
        IN  [pc |-> "sending", step_name |-> step_name, step |-> step,
             ctx |-> Some([ctx0 EXCEPT !.request_builder = None]),
             log |-> <<EvRequest(step), EvSend>>, result |-> Pending]

\* bot.rs:23-39: from the call to the suspension at req_builder.send().await.
\* built is the Result of HttpRequester::build_reqwest, which new_context
\* unwraps (bot.rs:92): Err unwinds with a panic.
handle_step_begin(h, step_name, built) ==
  LET looked == get(h, step_name)
  IN  IF looked = Panic
      THEN [Idle EXCEPT !.pc = "panicked", !.step_name = step_name]
      ELSE IF IsNone(looked)
      THEN [Idle EXCEPT !.pc = "returned", !.step_name = step_name,
                        !.result = Err(StepNotFound(step_name))]
      ELSE IF built.kind # "Ok"
      THEN [Idle EXCEPT !.pc = "panicked", !.step_name = step_name,
                        !.step = looked.val,
                        !.log = <<EvRequest(looked.val)>>]
      ELSE
        LET step == looked.val
            req == on_request(step)
            ctx0 == [new_context(req, built.val) EXCEPT
                       !.current_step = Some(step_name)]
            \* ctx.request_builder.take().unwrap()
            ctx1 == [ctx0 EXCEPT !.request_builder = None]
        IN  IF IsNone(ctx0.request_builder)
            THEN [Idle EXCEPT !.pc = "panicked", !.step_name = step_name,
                              !.step = step, !.log = <<EvRequest(step)>>]
            ELSE [pc |-> "sending", step_name |-> step_name, step |-> step,
                  ctx |-> Some(ctx1), log |-> <<EvRequest(step), EvSend>>,
                  result |-> Pending]

\* The end of handle_step once its callback was entered (bot.rs:45-50,
\* 72-73, 78-80).  `after` is the Context the callback left, or Panic: a
\* callback that panics unwinds through handle_step, which drops its
\* Context and hands nothing to the caller.
handle_step_end(x, after, log, result) ==
  IF after = Panic
  THEN [x EXCEPT !.pc = "panicked", !.ctx = None, !.log = log]
  ELSE [x EXCEPT !.pc = "returned", !.ctx = Some(after), !.log = log,
                 !.result = result]

\* handle_step_err without the `return` of bot.rs:46: a timeout falls
\* through to on_error.
handle_step_err_fallthrough(x, err, ms) ==
  LET ctx1 == set_time_elapsed(x.ctx.val, ms)
      error == ReqwestError(ErrToString(err))
      ctx2 == IF err.is_timeout THEN on_timeout(x.step, ctx1) ELSE ctx1
      early == IF err.is_timeout THEN <<EvTimeout(x.step, ctx1)>> ELSE <<>>
  IN  IF ctx2 = Panic
      THEN handle_step_end(x, Panic, x.log \o <<EvElapsed(ms)>> \o early, Pending)
      ELSE handle_step_end(x, on_error(x.step, ctx2, error),
                           x.log \o <<EvElapsed(ms)>> \o early
                             \o <<EvError(x.step, ctx2, error)>>,
                           Err(error))

\* handle_step_err without bot.rs:42: the elapsed time is recorded on the
\* response path only.
handle_step_err_untimed(x, err, ms) ==
  LET ctx1 == x.ctx.val
      error == ReqwestError(ErrToString(err))
  IN  IF err.is_timeout
      THEN handle_step_end(x, on_timeout(x.step, ctx1),
                           x.log \o <<EvTimeout(x.step, ctx1)>>, Err(error))
      ELSE handle_step_end(x, on_error(x.step, ctx1, error),
                           x.log \o <<EvError(x.step, ctx1, error)>>, Err(error))

\* handle_step_err that notifies the step of a failure and then hands the
\* Context back as a success instead of the error of bot.rs:50.
handle_step_err_swallow(x, err, ms) ==
  LET ctx1 == set_time_elapsed(x.ctx.val, ms)
      error == ReqwestError(ErrToString(err))
  IN  IF err.is_timeout
      THEN handle_step_end(x, on_timeout(x.step, ctx1),
                           x.log \o <<EvElapsed(ms), EvTimeout(x.step, ctx1)>>,
                           Err(error))
      ELSE handle_step_end(x, on_error(x.step, ctx1, error),
                           x.log \o <<EvElapsed(ms), EvError(x.step, ctx1, error)>>,
                           Ok(on_error(x.step, ctx1, error)))

\* handle_step_err that builds and sends the request a second time after
\* a failure that is no timeout, and reports the failure of that attempt.
handle_step_err_retry(x, err, ms) ==
  LET ctx1 == set_time_elapsed(x.ctx.val, ms)
      error == ReqwestError(ErrToString(err))
  IN  IF err.is_timeout
      THEN handle_step_end(x, on_timeout(x.step, ctx1),
                           x.log \o <<EvElapsed(ms), EvTimeout(x.step, ctx1)>>,
                           Err(error))
      ELSE handle_step_end(x, on_error(x.step, ctx1, error),
                           x.log \o <<EvRequest(x.step), EvSend, EvElapsed(ms),
                                      EvError(x.step, ctx1, error)>>,
                           Err(error))

\* bot.rs:41-51: the send failed; ms is stop_watch.elapsed().as_millis().
handle_step_err(x, err, ms) ==
  LET ctx1 == set_time_elapsed(x.ctx.val, ms)
      error == ReqwestError(ErrToString(err))
  IN  IF err.is_timeout
      THEN handle_step_end(x, on_timeout(x.step, ctx1),
                           x.log \o <<EvElapsed(ms), EvTimeout(x.step, ctx1)>>,
                           Err(error))
      ELSE handle_step_end(x, on_error(x.step, ctx1, error),
                           x.log \o <<EvElapsed(ms), EvError(x.step, ctx1, error)>>,
                           Err(error))

\* error_condition that ignores the accepted-code list.
error_condition_range_only(expected_codes, status_code) ==
  ~IsSuccess(status_code)

\* bot.rs:60-64: whether the received status is rejected.
error_condition(expected_codes, status_code) ==
  IF IsSome(expected_codes)
  THEN ~Contains(expected_codes.val, status_code)
  ELSE ~IsSuccess(status_code)

\* bot.rs:66-70: the error of a rejected status.
rejection(expected_codes, status_code) ==
  StatusCodeNotFound(
    U16AsI32(status_code),
    IF IsSome(expected_codes) THEN expected_codes.val ELSE <<>>)

\* handle_step_ok without the `return` of bot.rs:73: a rejected status
\* falls through to on_success.
handle_step_ok_fallthrough(x, status_code, ms) ==
  LET ctx1 == set_time_elapsed(x.ctx.val, ms)
      expected_codes == ctx1.status_codes
      rejected == error_condition(expected_codes, status_code)
      error == rejection(expected_codes, status_code)
      ctx2 == IF rejected THEN on_error(x.step, ctx1, error) ELSE ctx1
      early == IF rejected THEN <<EvError(x.step, ctx1, error)>> ELSE <<>>
  IN  IF ctx2 = Panic
      THEN handle_step_end(x, Panic, x.log \o <<EvElapsed(ms)>> \o early, Pending)
      ELSE LET ctx3 == [ctx2 EXCEPT !.response = None]
           IN  handle_step_end(x, on_success(x.step, ctx3),
                               x.log \o <<EvElapsed(ms)>> \o early
                                 \o <<EvSuccess(x.step, ctx3)>>,
                               Ok(on_success(x.step, ctx3)))

\* handle_step_ok that hands the Context back beside the error.
handle_step_ok_handback(x, status_code, ms) ==
  LET ctx1 == set_time_elapsed(x.ctx.val, ms)
      expected_codes == ctx1.status_codes
  IN  IF error_condition(expected_codes, status_code)
      THEN LET error == rejection(expected_codes, status_code)
           IN  handle_step_end(x, on_error(x.step, ctx1, error),
                               x.log \o <<EvElapsed(ms), EvError(x.step, ctx1, error)>>,
                               [kind |-> "Err", err |-> error,
                                ctx |-> on_error(x.step, ctx1, error)])
      ELSE LET ctx2 == [ctx1 EXCEPT !.response = None]
           IN  handle_step_end(x, on_success(x.step, ctx2),
                               x.log \o <<EvElapsed(ms), EvSuccess(x.step, ctx2)>>,
                               Ok(on_success(x.step, ctx2)))

\* handle_step_ok that buffers the received body in the Context and does
\* not clear it at bot.rs:77.
handle_step_ok_buffered(x, status_code, ms) ==
  LET ctx1 == set_response(set_time_elapsed(x.ctx.val, ms), ResBody)
      expected_codes == ctx1.status_codes
  IN  IF error_condition(expected_codes, status_code)
      THEN LET error == rejection(expected_codes, status_code)
           IN  handle_step_end(x, on_error(x.step, ctx1, error),
                               x.log \o <<EvElapsed(ms), EvError(x.step, ctx1, error)>>,
                               Err(error))
      ELSE handle_step_end(x, on_success(x.step, ctx1),
                           x.log \o <<EvElapsed(ms), EvSuccess(x.step, ctx1)>>,
                           Ok(on_success(x.step, ctx1)))

\* bot.rs:54-80: a response with this status was received.
handle_step_ok(x, status_code, ms) ==
  LET ctx1 == set_time_elapsed(x.ctx.val, ms)
      expected_codes == ctx1.status_codes
  IN  IF error_condition(expected_codes, status_code)
      THEN LET error == rejection(expected_codes, status_code)
           IN  handle_step_end(x, on_error(x.step, ctx1, error),
                               x.log \o <<EvElapsed(ms), EvError(x.step, ctx1, error)>>,
                               Err(error))
      ELSE LET ctx2 == [ctx1 EXCEPT !.response = None]
           IN  handle_step_end(x, on_success(x.step, ctx2),
                               x.log \o <<EvElapsed(ms), EvSuccess(x.step, ctx2)>>,
                               Ok(on_success(x.step, ctx2)))

(***************************************************************************)
(* State                                                                   *)
(***************************************************************************)
VARIABLES
  handlers,        \* StepManager.handlers (bot.rs:214)
  names_inserted,  \* history: the name() of every step handed to an insert
  last_inserted,   \* history: per name, the step most recently handed to one
  exec,            \* the state of each execution of handle_step
  known,           \* history: whether the name of the execution's current
                   \* call had been inserted when handle_step was called
  answer,          \* history: what the transport answered to the current call
  held,            \* the Context the caller of each execution was handed by
                   \* its last call, if that returned Ok, and owns since
  calls            \* the number of mutators the caller called on it

vars == <<handlers, names_inserted, last_inserted, exec, known, answer, held, calls>>

\* What the transport answered: nothing yet, a failure, or a response.
NoAnswer == [kind |-> "none"]
Failed(err, ms) == [kind |-> "failure", err |-> err, ms |-> ms]
\* A response carries its status and its body; every response of the model
\* carries the body {}.
Response(status_code, ms) ==
  [kind |-> "response", status |-> status_code, ms |-> ms, body |-> ResBody]

\* Bot::new (bot.rs:16-19) with StepManager::new (bot.rs:218-221)
Init ==
  /\ handlers = <<>>
  /\ names_inserted = {}
  /\ last_inserted = <<>>
  /\ exec = [e \in Execs |-> Idle]
  /\ known = [e \in Execs |-> FALSE]
  /\ answer = [e \in Execs |-> NoAnswer]
  /\ held = [e \in Execs |-> None]
  /\ calls = [e \in Execs |-> 0]

\* No execution is suspended inside handle_step, which borrows the Bot mutably.
Quiescent == \A e \in Execs : exec[e].pc # "sending"

\* The history after the steps of `steps` were handed over in vector order:
\* under each name, the element of highest index with that name.
NamesOf(steps) == {name(steps[i]) : i \in 1..Len(steps)}
LastOf(steps, n) ==
  steps[CHOOSE i \in 1..Len(steps) :
          /\ name(steps[i]) = n
          /\ \A j \in (i + 1)..Len(steps) : name(steps[j]) # n]
Record(steps) ==
  /\ names_inserted' = names_inserted \cup NamesOf(steps)
  /\ last_inserted' =
       [n \in DOMAIN last_inserted \cup NamesOf(steps) |->
          IF n \in NamesOf(steps) THEN LastOf(steps, n) ELSE last_inserted[n]]

\* bot.steps.insert(step)
Insert(s) ==
  /\ Quiescent
  /\ handlers' = insert(handlers, s)
  /\ Record(<<s>>)
  /\ UNCHANGED <<exec, known, answer, held, calls>>

\* bot.steps.insert_arc(step)
InsertArc(s) ==
  /\ Quiescent
  /\ handlers' = insert_arc(handlers, s)
  /\ Record(<<s>>)
  /\ UNCHANGED <<exec, known, answer, held, calls>>

\* Vectors of at most MaxMany steps.
StepVecs == UNION {[1..n -> StepIds] : n \in 0..MaxMany}

\* bot.steps.insert_many(steps)
InsertMany(steps) ==
  /\ Quiescent
  /\ handlers' = insert_many(handlers, steps)
  /\ Record(steps)
  /\ UNCHANGED <<exec, known, answer, held, calls>>

\* bot.steps.get(name), .len(), .contains_name(name), .contains_step(step)
Lookup(q) ==
  /\ Quiescent
  /\ handlers' = lookup(handlers, q).self
  /\ UNCHANGED <<names_inserted, last_inserted, exec, known, answer, held, calls>>

\* What HttpRequester::build_reqwest may return (bot.rs:92).
BuildResults == {[kind |-> "Ok", val |-> "builder"], [kind |-> "Err"]}

\* What the caller owns once the call of x is over: the Context of Ok(ctx)
\* (bot.rs:80), nothing after an Err or a panic.
Received(x) ==
  IF x.pc = "returned" /\ x.result.kind = "Ok" THEN Some(x.result.ctx) ELSE None

\* bot.handle_step(step_name), up to the await
HandleStepBegin(e, step_name, built) ==
  /\ exec[e].pc \in {"idle", "returned"}
  /\ exec' = [exec EXCEPT ![e] = handle_step_begin(handlers, step_name, built)]
  /\ known' = [known EXCEPT ![e] = step_name \in names_inserted]
  /\ answer' = [answer EXCEPT ![e] = NoAnswer]
  /\ held' = [held EXCEPT ![e] = None]
  /\ calls' = [calls EXCEPT ![e] = 0]
  /\ UNCHANGED <<handlers, names_inserted, last_inserted>>

\* the transport reports a failure; handle_step runs to its return
SendErr(e, err, ms) ==
  /\ exec[e].pc = "sending"
  /\ exec' = [exec EXCEPT ![e] = handle_step_err(exec[e], err, ms)]
  /\ answer' = [answer EXCEPT ![e] = Failed(err, ms)]
  /\ UNCHANGED <<handlers, names_inserted, last_inserted, known, held, calls>>

\* the transport delivers a response; handle_step runs to its return
SendOk(e, status_code, ms) ==
  /\ exec[e].pc = "sending"
  /\ exec' = [exec EXCEPT ![e] = handle_step_ok(exec[e], status_code, ms)]
  /\ answer' = [answer EXCEPT ![e] = Response(status_code, ms)]
  /\ held' = [held EXCEPT ![e] = Received(exec'[e])]
  /\ UNCHANGED <<handlers, names_inserted, last_inserted, known, calls>>

\* the caller calls a reading method of the Context it was handed
AccessContext(e, acc) ==
  /\ IsSome(held[e])
  /\ held' = [held EXCEPT ![e] = Some(access(@.val, acc).self)]
  /\ UNCHANGED <<handlers, names_inserted, last_inserted, exec, known, answer, calls>>

\* The mutator calls made so far on the Contexts the callers hold.
RECURSIVE Sum(_, _)
Sum(f, S) ==
  IF S = {} THEN 0
  ELSE LET e == CHOOSE x \in S : TRUE IN f[e] + Sum(f, S \ {e})
CallsMade == Sum(calls, Execs)

\* The mutators a caller calls on a Context, with their arguments.
CallerOps ==
  {OpBuilder("again"), OpSet("Ping"), OpClear, OpResponse(BomBody), OpElapsed(7)}

\* the caller calls a mutator of the Context it was handed
MutateContext(e, o) ==
  /\ IsSome(held[e])
  /\ CallsMade < MaxCalls
  /\ held' = [held EXCEPT ![e] = Some(ApplyOp(@.val, o))]
  /\ calls' = [calls EXCEPT ![e] = @ + 1]
  /\ UNCHANGED <<handlers, names_inserted, last_inserted, exec, known, answer>>

Next ==
  \/ \E s \in StepIds : Insert(s)
  \/ \E s \in StepIds : InsertArc(s)
  \/ \E steps \in StepVecs : InsertMany(steps)
  \/ \E q \in Queries : Lookup(q)
  \/ \E e \in Execs, n \in Names, built \in BuildResults :
       HandleStepBegin(e, n, built)
  \/ \E e \in Execs, f \in Failures : SendErr(e, f.err, f.ms)
  \/ \E e \in Execs, r \in Responses : SendOk(e, r.status, r.ms)
  \/ \E e \in Execs, acc \in Accessors : AccessContext(e, acc)
  \/ \E e \in Execs, o \in CallerOps : MutateContext(e, o)

Spec == Init /\ [][Next]_vars

(***************************************************************************)
(* Vocabulary of the properties                                            *)
(***************************************************************************)
CallbackEvents == {"on_success", "on_error", "on_timeout"}
\* The positions of the log at which a callback named ev was entered.
Entries(log, ev) == {i \in 1..Len(log) : log[i].ev = ev}
\* The positions of the log at which any callback was entered.
CallbackEntries(log) == {i \in 1..Len(log) : log[i].ev \in CallbackEvents}
\* handle_step has returned to its caller (it did not unwind).
Returned(e) == exec[e].pc = "returned"
\* The call of execution e has ended, by a return or by a panic.
Ended(e) == exec[e].pc \in {"returned", "panicked"}
\* The callback the call entered panicked: it broke the contract of a step
\* (spec, sections 4.1 and 5: a callback runs to completion and acts on the
\* Context only), and handle_step unwound with it.
Unwound(e) == exec[e].pc = "panicked" /\ CallbackEntries(exec[e].log) # {}
\* The call has ended and its step kept the contract.
Over(e) == Ended(e) /\ ~Unwound(e)

(***************************************************************************)
(* C1.  A call of handle_step with a name that was never inserted returns  *)
(* Err(StepNotFound(name)) to the caller, without a crash, and on that     *)
(* path no on_request, no send and no callback happens.                    *)
(* Violated: StepManager::get unwraps the HashMap lookup (bot.rs:239), so  *)
(* the call panics and the `None` arm of bot.rs:25-27 is never taken.      *)
(***************************************************************************)
C1_UnknownNameReturnsStepNotFound ==
  \A e \in Execs :
    (Over(e) /\ ~known[e]) =>
      /\ exec[e].pc = "returned"
      /\ exec[e].result = Err(StepNotFound(exec[e].step_name))
      /\ exec[e].log = <<>>

(***************************************************************************)
(* C2.  A call of handle_step on a registered name invokes no callback     *)
(* while the send is pending and, whatever the transport answers (a        *)
(* timeout, another failure, a response of any status), it has invoked     *)
(* exactly one callback, exactly once, when it ends; it ends by returning  *)
(* unless that callback panicked.                                          *)
(***************************************************************************)
C2_ExactlyOneCallback ==
  \A e \in Execs :
    known[e] =>
      /\ exec[e].pc = "sending" =>
           /\ answer[e] = NoAnswer
           /\ CallbackEntries(exec[e].log) = {}
      /\ (Ended(e) /\ answer[e] # NoAnswer) =>
           /\ Returned(e) \/ Unwound(e)
           /\ Cardinality(CallbackEntries(exec[e].log)) = 1

\* Both executions have returned from calls on registered names, one after
\* a timeout and one after a response.
C2_Witness ==
  /\ \A e \in Execs : known[e] /\ Returned(e)
  /\ \E e \in Execs : answer[e].kind = "failure" /\ answer[e].err.is_timeout
  /\ \E e \in Execs : answer[e].kind = "response"

(***************************************************************************)
(* C3.  When the transport reports a timeout, on_timeout is invoked        *)
(* exactly once, on_error and on_success are not invoked, and the caller   *)
(* of a step that keeps its contract (on_timeout runs to completion)       *)
(* receives an error of the ReqwestError class.                            *)
(***************************************************************************)
C3_TimeoutIsolation ==
  \A e \in Execs :
    (Ended(e) /\ answer[e].kind = "failure" /\ answer[e].err.is_timeout) =>
      /\ Cardinality(Entries(exec[e].log, "on_timeout")) = 1
      /\ Entries(exec[e].log, "on_error") = {}
      /\ Entries(exec[e].log, "on_success") = {}
      /\ Over(e) =>
           /\ Returned(e)
           /\ exec[e].result.kind = "Err"
           /\ exec[e].result.err.kind = "ReqwestError"

\* An execution returned after the transport reported a timeout.
C3_Witness ==
  \E e \in Execs :
    /\ Returned(e)
    /\ answer[e].kind = "failure"
    /\ answer[e].err.is_timeout

(***************************************************************************)
(* The acceptance rule as the specification words it.                      *)
(***************************************************************************)
\* The accepted-code list the step of execution e put in its descriptor.
Descriptor(e) == StepTable[exec[e].step].codes
\* The members of a list of codes.
Members(codes) == {codes[i] : i \in DOMAIN codes}
\* A response was received for the current call of e, which has ended.
Answered(e) == Ended(e) /\ answer[e].kind = "response"
\* The only callback entered during the call was ev, once.
OnlyCallback(e, ev) ==
  /\ Cardinality(CallbackEntries(exec[e].log)) = 1
  /\ Cardinality(Entries(exec[e].log, ev)) = 1
\* on_error was entered with exactly this error, and handle_step returned
\* it (a step that keeps its contract) or unwound with the panic of on_error.
RejectedWith(e, error) ==
  /\ OnlyCallback(e, "on_error")
  /\ \A i \in Entries(exec[e].log, "on_error") : exec[e].log[i].err = error
  /\ \/ Returned(e) /\ exec[e].result = Err(error)
     \/ Unwound(e)
\* on_success was entered, and handle_step returned Ok (a step that keeps
\* its contract) or unwound with the panic of on_success.
Accepted(e) ==
  /\ OnlyCallback(e, "on_success")
  /\ \/ Returned(e) /\ exec[e].result.kind = "Ok"
     \/ Unwound(e)

(***************************************************************************)
(* C4.  With an explicit accepted-code list L in the request descriptor,   *)
(* L is the Context's status_codes and a response of status s is accepted  *)
(* (on_success, Ok) when s is a member of L and otherwise rejected         *)
(* (on_error with StatusCodeNotFound(s, L), the same error returned), 2xx  *)
(* codes outside L included.  The value is returned once the callback has  *)
(* run to completion, as the contract of a step has it.                    *)
(***************************************************************************)
C4_ExplicitListRule ==
  \A e \in Execs :
    (Answered(e) /\ IsSome(Descriptor(e))) =>
      LET L == Descriptor(e).val
          s == answer[e].status
      IN  /\ \A i \in CallbackEntries(exec[e].log) :
               exec[e].log[i].ctx.status_codes = Some(L)
          /\ IF s \in Members(L)
             THEN Accepted(e)
             ELSE RejectedWith(e, StatusCodeNotFound(s, L))

\* A non-2xx member of the list was accepted by one execution and a 2xx
\* code outside the list was rejected by the other.
C4_Witness ==
  \E e1, e2 \in Execs :
    /\ Answered(e1) /\ IsSome(Descriptor(e1))
    /\ answer[e1].status = 404 /\ exec[e1].result.kind = "Ok"
    /\ Answered(e2) /\ IsSome(Descriptor(e2))
    /\ answer[e2].status = 200 /\ exec[e2].result.kind = "Err"

(***************************************************************************)
(* C5.  With no accepted-code list in the request descriptor, a response   *)
(* of status s is accepted (on_success, Ok) when 200 <= s <= 299 and is    *)
(* otherwise rejected: on_error with StatusCodeNotFound(s, empty list),    *)
(* the same error returned.  The value is returned once the callback has   *)
(* run to completion, as the contract of a step has it.                    *)
(***************************************************************************)
C5_DefaultRangeRule ==
  \A e \in Execs :
    (Answered(e) /\ IsNone(Descriptor(e))) =>
      LET s == answer[e].status
      IN  IF s \in 200..299
          THEN Accepted(e)
          ELSE RejectedWith(e, StatusCodeNotFound(s, <<>>))

\* Without a list, 299 was accepted by one execution and 300 rejected by
\* the other.
C5_Witness ==
  \E e1, e2 \in Execs :
    /\ Answered(e1) /\ IsNone(Descriptor(e1))
    /\ answer[e1].status = 299 /\ exec[e1].result.kind = "Ok"
    /\ Answered(e2) /\ IsNone(Descriptor(e2))
    /\ answer[e2].status = 300 /\ exec[e2].result.kind = "Err"

(***************************************************************************)
(* C6.  Every callback entry of a call is preceded by the driver's         *)
(* recording of the elapsed time, and the Context handed to the callback   *)
(* carries the recorded value, on every outcome path.                      *)
(***************************************************************************)
C6_ElapsedBeforeCallback ==
  \A e \in Execs :
    \A i \in CallbackEntries(exec[e].log) :
      \E j \in 1..(i - 1) :
        /\ exec[e].log[j].ev = "set_time_elapsed"
        /\ exec[e].log[j].ms = answer[e].ms
        /\ get_time_elapsed(exec[e].log[i].ctx) = answer[e].ms

\* A timeout and another transport failure were both dispatched to their
\* callbacks with a nonzero elapsed time.
C6_Witness ==
  \E e1, e2 \in Execs :
    /\ Entries(exec[e1].log, "on_timeout") # {}
    /\ Entries(exec[e2].log, "on_error") # {}
    /\ answer[e2].kind = "failure"
    /\ answer[e1].ms = 7 /\ answer[e2].ms = 7

(***************************************************************************)
(* C7.  The next-step hint is absent in the Context every callback is      *)
(* handed (the driver never writes it), and the Context a successful       *)
(* handle_step returns reports Some(X) exactly when the last hint call of  *)
(* on_success was set_next_step(X), and None when on_success made no hint  *)
(* call or cleared it last.                                                *)
(***************************************************************************)
\* The hint a callback body leaves behind, read off its last hint call.
HintOf(ops) ==
  LET hints == {i \in DOMAIN ops : ops[i].op \in {"set_next_step", "clear_next_step"}}
      last == CHOOSE i \in hints : \A j \in hints : j <= i
  IN  IF hints = {} THEN None
      ELSE IF ops[last].op = "set_next_step" THEN Some(ops[last].step)
      ELSE None

C7_NextStepOnlyFromCallback ==
  \A e \in Execs :
    /\ \A i \in CallbackEntries(exec[e].log) :
         get_next_step(exec[e].log[i].ctx) = None
    /\ (Returned(e) /\ exec[e].result.kind = "Ok") =>
         get_next_step(exec[e].result.ctx) = HintOf(StepTable[exec[e].step].succ)

\* One execution returned a Context whose hint on_success set, the other a
\* Context whose on_success never touched it.
C7_Witness ==
  \E e1, e2 \in Execs :
    /\ Returned(e1) /\ exec[e1].result.kind = "Ok"
    /\ get_next_step(exec[e1].result.ctx) = Some("Ping")
    /\ Returned(e2) /\ exec[e2].result.kind = "Ok"
    /\ StepTable[exec[e2].step].succ = <<>>
    /\ get_next_step(exec[e2].result.ctx) = None

(***************************************************************************)
(* C8.  No failure is swallowed: when the transport fails (timeout or      *)
(* not) or the response's status is rejected by the acceptance rule, the   *)
(* step is notified through on_error or on_timeout and handle_step, for a  *)
(* step that keeps its contract (the callback runs to completion), returns *)
(* Err; every error handed to on_error is the error returned.  In no case  *)
(* does the call end in Ok.                                                *)
(***************************************************************************)
\* The acceptance rule of section 4.3, step 5.
Acceptable(codes, s) ==
  IF IsSome(codes) THEN s \in Members(codes.val) ELSE s \in 200..299
\* The current call of e, which has ended, met a failure.
FailurePath(e) ==
  /\ Ended(e)
  /\ \/ answer[e].kind = "failure"
     \/ answer[e].kind = "response" /\ ~Acceptable(Descriptor(e), answer[e].status)

C8_NoErrorSwallowed ==
  \A e \in Execs :
    FailurePath(e) =>
      /\ Entries(exec[e].log, "on_error") \cup Entries(exec[e].log, "on_timeout") # {}
      /\ exec[e].result.kind # "Ok"
      /\ Returned(e) \/ Unwound(e)
      /\ Returned(e) =>
           /\ exec[e].result.kind = "Err"
           /\ \A i \in Entries(exec[e].log, "on_error") :
                exec[e].log[i].err = exec[e].result.err

\* One execution failed in the transport (not a timeout) and the other on a
\* rejected status; both notified on_error.
C8_Witness ==
  \E e1, e2 \in Execs :
    /\ FailurePath(e1) /\ answer[e1].kind = "failure" /\ ~answer[e1].err.is_timeout
    /\ Entries(exec[e1].log, "on_error") # {}
    /\ FailurePath(e2) /\ answer[e2].kind = "response"
    /\ Entries(exec[e2].log, "on_error") # {}
    /\ Returned(e1) /\ Returned(e2)

(***************************************************************************)
(* C9.  After any sequence of insert, insert_arc and insert_many, a lookup *)
(* of every inserted name N yields a step whose name() is N, and len() is  *)
(* the number of distinct names inserted so far (so an insertion under a   *)
(* new name adds one and an insertion under a present name adds nothing).  *)
(***************************************************************************)
C9_RegistryRoundTrip ==
  /\ \A n \in names_inserted :
       /\ IsSome(get(handlers, n))
       /\ name(get(handlers, n).val) = n
  /\ len(handlers) = Cardinality(names_inserted)

\* Three distinct names are registered and "Ping", once resolved to its
\* instance 1, now holds instance 2: four insertions or more, len() of 3.
C9_Witness ==
  /\ Cardinality(names_inserted) = 3
  /\ len(handlers) = 3
  /\ get(handlers, "Ping") = Some(2)
  /\ \E e \in Execs : exec[e].step = 1

(***************************************************************************)
(* C10.  Last write wins: a lookup of a name yields the step most recently *)
(* inserted under it; no insertion is refused (every inserted name is a    *)
(* key); and insert_many(v) yields the registry that insert_arc yields     *)
(* when called on each element of v in order.                              *)
(***************************************************************************)
\* insert_arc on each element of steps, first to last.
RECURSIVE EachArc(_, _)
EachArc(h, steps) ==
  IF steps = <<>> THEN h ELSE EachArc(insert_arc(h, Head(steps)), Tail(steps))

C10_LastWriteWins ==
  /\ DOMAIN handlers = names_inserted
  /\ \A n \in DOMAIN last_inserted : get(handlers, n) = Some(last_inserted[n])
  /\ \A steps \in StepVecs : insert_many(handlers, steps) = EachArc(handlers, steps)

\* "Ping" was registered as instance 2 (an execution resolved it), then
\* instance 1 was inserted under the same name, and the lookup yields 1.
C10_Witness ==
  /\ "Ping" \in names_inserted
  /\ last_inserted["Ping"] = 1
  /\ get(handlers, "Ping") = Some(1)
  /\ \E e \in Execs : exec[e].step = 2


(***************************************************************************)
(* C11.  When a response is received and accepted, the Context handed to   *)
(* on_success gives access to its body: body_bytes() yields the bytes of   *)
(* the received response and body_text() their decoded text.               *)
(* Violated: the driver never stores the body of `res` in the Context (no  *)
(* call of set_response, no assignment of Some to ctx.response) and sets   *)
(* ctx.response to None at bot.rs:77, so on_success reads no body.         *)
(***************************************************************************)
C11_BodyAvailableInOnSuccess ==
  \A e \in Execs :
    \A i \in Entries(exec[e].log, "on_success") :
      /\ body_bytes(exec[e].log[i].ctx) = Some(answer[e].body)
      /\ body_text(exec[e].log[i].ctx) = decode(answer[e].body)


(***************************************************************************)
(* C12.  The Context handed to a callback of handle_step(name) has         *)
(* current_step = name, and so has the Context a successful call returns.  *)
(* In particular a step named "Ping" whose on_success leaves the hint      *)
(* "Ping" returns, on an accepted response, current_step = "Ping" and      *)
(* next_step = "Ping", a name that is still registered, so that executing  *)
(* the returned next step executes "Ping" again.                           *)
(***************************************************************************)
C12_CurrentStepIsCalledName ==
  \A e \in Execs :
    /\ \A i \in CallbackEntries(exec[e].log) :
         exec[e].log[i].ctx.current_step = Some(exec[e].step_name)
    /\ (Returned(e) /\ exec[e].result.kind = "Ok") =>
         /\ exec[e].result.ctx.current_step = Some(exec[e].step_name)
         /\ (exec[e].step_name = "Ping"
               /\ HintOf(StepTable[exec[e].step].succ) = Some("Ping")) =>
              /\ exec[e].result.ctx.current_step = Some("Ping")
              /\ get_next_step(exec[e].result.ctx) = Some("Ping")
              /\ "Ping" \in names_inserted

\* The "Ping" step that names itself next returned from an accepted 200.
C12_Witness ==
  \E e \in Execs :
    /\ Returned(e) /\ exec[e].result.kind = "Ok"
    /\ exec[e].step = 1 /\ answer[e].kind = "response" /\ answer[e].status = 200
    /\ exec[e].result.ctx.current_step = Some("Ping")
    /\ get_next_step(exec[e].result.ctx) = Some("Ping")


(***************************************************************************)
(* C13.  Executions of handle_step over the same registry may be suspended *)
(* at the send at the same time without interfering.  A step of one        *)
(* execution changes nothing of another execution (its Context, log and    *)
(* result), and the outcome of a finished call (callback entered, result,  *)
(* next-step hint, current_step) is the one its step and the transport's   *)
(* answer determine, which is also what the same call yields when run      *)
(* alone on a Bot holding just that step.                                  *)
(***************************************************************************)
\* The callback the answer of the transport calls for (section 4.3).
DueCallback(e) ==
  IF answer[e].kind = "failure"
  THEN IF answer[e].err.is_timeout THEN "on_timeout" ELSE "on_error"
  ELSE IF Acceptable(Descriptor(e), answer[e].status) THEN "on_success"
  ELSE "on_error"
\* The mutator calls of that callback, as the step defines them.
DueOps(e) ==
  LET row == StepTable[exec[e].step]
  IN  CASE DueCallback(e) = "on_success" -> row.succ
        [] DueCallback(e) = "on_error" -> row.err
        [] OTHER -> row.tmo
\* The same call, run alone from a fresh Bot holding only its step.
Alone(e) ==
  LET bot == insert(<<>>, exec[e].step)
      sent == handle_step_begin(bot, exec[e].step_name,
                                [kind |-> "Ok", val |-> "builder"])
  IN  IF answer[e].kind = "failure"
      THEN handle_step_err(sent, answer[e].err, answer[e].ms)
      ELSE handle_step_ok(sent, answer[e].status, answer[e].ms)

C13_OutcomeOfEachExecution ==
  \A e \in Execs :
    (Ended(e) /\ answer[e] # NoAnswer) =>
      /\ OnlyCallback(e, DueCallback(e))
      /\ exec[e] = Alone(e)
      /\ Returned(e) \/ Unwound(e)
      /\ Returned(e) =>
           /\ (exec[e].result.kind = "Ok") = (DueCallback(e) = "on_success")
           /\ get_next_step(exec[e].ctx.val) = HintOf(DueOps(e))
           /\ exec[e].ctx.val.current_step = Some(exec[e].step_name)

C13_OwnContextOnly ==
  \A e, f \in Execs :
    (e # f /\ exec'[e] # exec[e]) =>
      /\ exec'[f] = exec[f]
      /\ held'[f] = held[f]
      /\ answer'[f] = answer[f]
      /\ known'[f] = known[f]

C13_NoInterference ==
  /\ []C13_OutcomeOfEachExecution
  /\ [][C13_OwnContextOnly]_vars

\* Both executions are suspended at the send at once, each with a Context
\* of its own, for different steps.
C13_Witness ==
  /\ \A e \in Execs : exec[e].pc = "sending" /\ IsSome(exec[e].ctx)
  /\ exec[1].step_name = "Ping"
  /\ exec[2].step_name = "Fetch"


(***************************************************************************)
(* C14.  On a Context without a response body_text() is the empty text,    *)
(* body_bytes() is absent and body_json() is an error; and a call of any   *)
(* reading method (body_bytes, body_text, body_json, get_next_step,        *)
(* get_time_elapsed), failed or not, leaves every field of the Context as  *)
(* it was, so that a second call returns what the first returned.          *)
(***************************************************************************)
\* Every Context of the state: those the callbacks were handed and those
\* the calls ended with (handed back by a successful call).
ContextsOf(e) ==
  {exec[e].log[i].ctx : i \in CallbackEntries(exec[e].log)}
    \cup (IF IsSome(exec[e].ctx) THEN {exec[e].ctx.val} ELSE {})
    \cup (IF IsSome(held[e]) THEN {held[e].val} ELSE {})

C14_AccessorsOnlyRead ==
  \A e \in Execs :
    \A c \in ContextsOf(e) :
      /\ IsNone(c.response) =>
           /\ body_text(c) = <<>>
           /\ body_bytes(c) = None
           /\ body_json(c).kind = "Err"
      /\ \A acc \in Accessors :
           /\ access(c, acc).self = c
           /\ access(access(c, acc).self, acc).out = access(c, acc).out

\* One execution was handed back a Context without a response, the other a
\* Context in which on_success stored a body.
C14_Witness ==
  \E e1, e2 \in Execs :
    /\ Returned(e1) /\ exec[e1].result.kind = "Ok"
    /\ IsNone(exec[e1].result.ctx.response)
    /\ Returned(e2) /\ exec[e2].result.kind = "Ok"
    /\ body_bytes(exec[e2].result.ctx) = Some(ResBody)
    /\ body_text(exec[e2].result.ctx) = <<123, 125>>


(***************************************************************************)
(* C15.  The Context the driver builds holds the request handle; the       *)
(* handle is taken out of it at the send, so it is absent while the send   *)
(* is pending and in the Context every callback is handed; and the driver  *)
(* sends at most once per Context.                                         *)
(***************************************************************************)
C15_RequestHandleTakenAtSend ==
  \A e \in Execs :
    /\ IsSome(exec[e].ctx) =>
         new_context(exec[e].ctx.val.request, "builder").request_builder
           = Some("builder")
    /\ exec[e].pc = "sending" =>
         /\ exec[e].ctx.val.request_builder = None
         /\ Cardinality(Entries(exec[e].log, "send")) = 1
    /\ \A i \in CallbackEntries(exec[e].log) :
         exec[e].log[i].ctx.request_builder = None
    /\ Cardinality(Entries(exec[e].log, "send")) <= 1

\* One execution is suspended at the send, its handle taken; the other has
\* handed a Context without handle to a callback.
C15_Witness ==
  \E e1, e2 \in Execs :
    /\ exec[e1].pc = "sending"
    /\ exec[e1].ctx.val.request_builder = None
    /\ Returned(e2)
    /\ CallbackEntries(exec[e2].log) # {}
    /\ Entries(exec[e2].log, "send") # {}


(***************************************************************************)
(* C16.  The driver never retries: a call of handle_step on a registered   *)
(* name has called on_request of its step once and sent the request once   *)
(* when it is suspended at the send, and still exactly once each when it   *)
(* is over, whatever the outcome (timeout, transport failure, rejected     *)
(* status, success).                                                       *)
(***************************************************************************)
C16_NoRetry ==
  \A e \in Execs :
    (known[e] /\ (exec[e].pc = "sending" \/ (Ended(e) /\ answer[e] # NoAnswer))) =>
      /\ Cardinality(Entries(exec[e].log, "on_request")) = 1
      /\ Cardinality(Entries(exec[e].log, "send")) = 1
      /\ \A i \in Entries(exec[e].log, "on_request") :
           exec[e].log[i].step = exec[e].step

\* One call ended on a transport failure that is no timeout, the other on
\* a rejected status; each sent once.
C16_Witness ==
  \E e1, e2 \in Execs :
    /\ Returned(e1) /\ answer[e1].kind = "failure" /\ ~answer[e1].err.is_timeout
    /\ Cardinality(Entries(exec[e1].log, "send")) = 1
    /\ Returned(e2) /\ answer[e2].kind = "response"
    /\ exec[e2].result.kind = "Err"
    /\ Cardinality(Entries(exec[e2].log, "send")) = 1


(***************************************************************************)
(* C17.  on_success is entered with the response of the Context absent,    *)
(* and handle_step returns Ok exactly when on_success was the callback it  *)
(* invoked, the returned Context being the one on_success left; a call     *)
(* that invoked on_error or on_timeout returns Err.                        *)
(***************************************************************************)
C17_OkIffOnSuccess ==
  \A e \in Execs :
    /\ \A i \in Entries(exec[e].log, "on_success") :
         /\ IsNone(exec[e].log[i].ctx.response)
         /\ Returned(e) =>
              exec[e].result =
                Ok(RunOps(exec[e].log[i].ctx, StepTable[exec[e].step].succ))
    /\ Returned(e) =>
         /\ (exec[e].result.kind = "Ok") = (Entries(exec[e].log, "on_success") # {})
         /\ (Entries(exec[e].log, "on_error") \cup Entries(exec[e].log, "on_timeout") # {})
              => exec[e].result.kind = "Err"

\* One call returned Ok from on_success, the other returned Err from
\* on_timeout.
C17_Witness ==
  \E e1, e2 \in Execs :
    /\ Returned(e1) /\ exec[e1].result.kind = "Ok"
    /\ Entries(exec[e1].log, "on_success") # {}
    /\ Returned(e2) /\ exec[e2].result.kind = "Err"
    /\ Entries(exec[e2].log, "on_timeout") # {}


(***************************************************************************)
(* C18.  contains_step(s) is true exactly when a step was inserted under   *)
(* the name s.name(), whichever instance is stored there, and so agrees    *)
(* with contains_name(s.name()) in every state of the registry.            *)
(***************************************************************************)
C18_ContainsStepByName ==
  \A s \in StepIds :
    /\ contains_step(handlers, s) = (name(s) \in names_inserted)
    /\ contains_step(handlers, s) = contains_name(handlers, name(s))
    /\ lookup(handlers, [op |-> "contains_step", arg |-> s]).out
         = (name(s) \in names_inserted)

\* "Ping" holds its instance 2: contains_step answers true for instance 1,
\* which is not stored, and false for a step whose name is not registered.
C18_Witness ==
  /\ get(handlers, "Ping") = Some(2)
  /\ contains_step(handlers, 1)
  /\ contains_name(handlers, name(1))
  /\ ~contains_step(handlers, 3)


(***************************************************************************)
(* C19.  On every failure outcome (timeout, other transport failure,       *)
(* rejected status) the value handle_step returns is the error alone: it   *)
(* is fixed by the transport's answer and the accepted-code list, carries  *)
(* no Context, and the caller is handed no Context, so neither the hint    *)
(* on_error or on_timeout set nor the recorded elapsed time reaches it.    *)
(* (Nothing at all is returned when the callback panics.)                  *)
(***************************************************************************)
\* The error of a failure outcome, from the answer and the descriptor only.
ErrorOf(e) ==
  IF answer[e].kind = "failure"
  THEN ReqwestError(answer[e].err.text)
  ELSE StatusCodeNotFound(
         answer[e].status,
         IF IsSome(Descriptor(e)) THEN Descriptor(e).val ELSE <<>>)

C19_FailureReturnsErrorOnly ==
  \A e \in Execs :
    FailurePath(e) =>
      /\ held[e] = None
      /\ Returned(e) \/ Unwound(e)
      /\ Returned(e) =>
           /\ DOMAIN exec[e].result = {"kind", "err"}
           /\ exec[e].result = Err(ErrorOf(e))
      /\ Unwound(e) => exec[e].result = Pending

\* One execution timed out and the other was rejected on its status; both
\* callbacks left a hint in a Context that recorded 7 ms, and both callers
\* hold an Err.
C19_Witness ==
  \E e1, e2 \in Execs :
    /\ FailurePath(e1) /\ answer[e1].kind = "failure" /\ answer[e1].err.is_timeout
    /\ FailurePath(e2) /\ answer[e2].kind = "response"
    /\ \A e \in {e1, e2} :
         /\ Returned(e)
         /\ IsSome(get_next_step(exec[e].ctx.val))
         /\ get_time_elapsed(exec[e].ctx.val) = 7
         /\ exec[e].result.kind = "Err"


(***************************************************************************)
(* C20.  Registry key invariant: after any sequence of insert, insert_arc, *)
(* insert_many, lookups and handle_step calls, every entry of the registry *)
(* is keyed by the name() of the step it stores; and get, len,             *)
(* contains_name, contains_step and handle_step leave the contents of the  *)
(* registry as they were.                                                  *)
(***************************************************************************)
\* Every entry is stored under the name of its step.
C20_KeyedByName ==
  \A n \in DOMAIN handlers : name(handlers[n]) = n
\* A step that inserts nothing leaves the registry as it was.
C20_OnlyInsertsWrite ==
  (names_inserted' = names_inserted /\ last_inserted' = last_inserted)
    => handlers' = handlers
\* No reading method changes the map it is called on.
C20_LookupsOnlyRead ==
  \A q \in Queries : lookup(handlers, q).self = handlers

C20_RegistryKeyInvariant ==
  /\ [](C20_KeyedByName /\ C20_LookupsOnlyRead)
  /\ [][C20_OnlyInsertsWrite]_vars

\* "Ping" was overwritten by its second instance, a call of handle_step on
\* it has returned and one on "Fetch" is in flight, with all three names
\* still registered under their own keys.
C20_Witness ==
  /\ DOMAIN handlers = {"Ping", "Fetch", "RobotsTxt"}
  /\ handlers["Ping"] = 2
  /\ \E e1, e2 \in Execs :
       /\ Returned(e1) /\ exec[e1].step_name = "Ping"
       /\ exec[e2].pc = "sending" /\ exec[e2].step_name = "Fetch"

====
